---- MODULE Spec2Model ----
(***************************************************************************)
(* cart-service: the cart mutation protocol.                               *)
(*                                                                         *)
(* The model has three layers, as the repository has:                      *)
(*   - the cart_items table on the primary, with its constraints          *)
(*     (db/migrations/sql/V1__init_schema.sql) and the statements the      *)
(*     repository sends to it (postgres_cart_repository.go);               *)
(*   - the repository operations AddItem (an explicit transaction of      *)
(*     three round trips: begin, upsert, commit) and UpdateItem,           *)
(*     RemoveItem, Clear (one statement each);                             *)
(*   - the service operations of logic/v1/service.go, which validate and   *)
(*     translate errors.                                                   *)
(* Requests run concurrently, one per process of Procs.  A request that    *)
(* has completed is recorded in `last` (what was asked, what the store     *)
(* returned, what the service returned).                                   *)
(***************************************************************************)
EXTENDS Integers, Sequences, FiniteSets, TLC

\* ---------------------------------------------------------------- bounds
MaxId == 3

\* API requests being served at one time while the process shuts down.
MaxInflight == 2

\* Calls compared with their sequential executions.
MaxOps == 3

\* Characters of a traceparent header value.
MaxLen == 4

\* PostgreSQL INTEGER (cart_items.quantity) is a signed 32-bit integer.
IntMax == 2147483647

Procs == {1, 2}
Users == {"1", "2"}
Products == {"p1", "p2"}
ItemIds == 1..MaxId

\* ------------------------------------------------------------ error values
Nil == "nil"
ErrNotFound == "domain.ErrNotFound"
ErrInvalidQuantity == "ErrInvalidQuantity"
ErrCartItemNotFound == "ErrCartItemNotFound"
\* Errors of the store other than the not-found marker.
ErrConn == "connection_or_context_error"
ErrCheckViolation == "check_violation_23514"
ErrOutOfRange == "numeric_value_out_of_range_22003"
ErrReadOnly == "read_only_sql_transaction_25006"
ErrInvalidText == "invalid_text_representation_22P02"
\* logicv1.ErrCartNotFound, which no operation of the service produces; a
\* repository behind CartRepository may return it.
ErrCartNotFound == "ErrCartNotFound"
\* The error of c.ShouldBindJSON.
ErrBind == "binding_error"

\* The zero value of CartItem.ID, the empty string; the ids of stored rows
\* are the positive integers the sequence hands out.
EmptyItemID == 0

\* Display name and unit price (in cents) sent with an add request.
Mouse == [product_name |-> "Wireless Mouse", product_price |-> 2999]
Keyboard == [product_name |-> "Mechanical Keyboard", product_price |-> 7999]
Offers == {Mouse, Keyboard}

\* The workloads checked.  Each fixes which requests run concurrently and
\* what their inputs are drawn from; `scope` holds the one chosen by Init.
\*   merge:     two concurrent requests on one (user, product) pair;
\*   ownership: two users, one request at a time;
\*   range:     invalid and extreme quantities, one request at a time;
\*   lines:     one user with two products, two concurrent requests;
\*   store:     the repository called directly, as CartRepository allows,
\*              with no service in front of it (direct = TRUE);
\*   cart:      one user who also reads the cart (reads = TRUE), is offered
\*              a product under two names and prices, and may name an item
\*              by the empty identifier;
\*   http:      two users whose requests come in through the handlers of
\*              web/v1 (http = TRUE), over a repository whose reads may
\*              fail with any error of faults;
\*   lifecycle: the process of cmd/main.go from serving to exit (life =
\*              TRUE), its API requests reduced to their use of the pool;
\*   serial:    at most MaxOps calls of two concurrent requests on one
\*              user's two products, over connections that do not fail,
\*              with the calls that returned kept in hist (serial = TRUE);
\*   trace:     requests passing LoggingMiddleware with the trace headers
\*              they carry (trace = TRUE).
Scopes ==
    {[name |-> "merge", direct |-> FALSE, reads |-> FALSE, http |-> FALSE,
      life |-> FALSE, track |-> TRUE, serial |-> FALSE, trace |-> FALSE,
      faults |-> {ErrConn}, procs |-> {1, 2},
      users |-> {"1"}, products |-> {"p1"}, offers |-> {Mouse},
      items |-> ItemIds, quantities |-> {0, 1, 2}],
     [name |-> "ownership", direct |-> FALSE, reads |-> FALSE, http |-> FALSE,
      life |-> FALSE, track |-> FALSE, serial |-> FALSE, trace |-> FALSE,
      faults |-> {ErrConn}, procs |-> {1},
      users |-> {"1", "2"}, products |-> {"p1"}, offers |-> {Mouse},
      items |-> ItemIds, quantities |-> {0, 1}],
     [name |-> "range", direct |-> FALSE, reads |-> FALSE, http |-> FALSE,
      life |-> FALSE, track |-> TRUE, serial |-> FALSE, trace |-> FALSE,
      faults |-> {ErrConn}, procs |-> {1},
      users |-> {"1"}, products |-> {"p1"}, offers |-> {Mouse},
      items |-> ItemIds, quantities |-> {-1, 0, 1, IntMax}],
     [name |-> "lines", direct |-> FALSE, reads |-> FALSE, http |-> FALSE,
      life |-> FALSE, track |-> FALSE, serial |-> FALSE, trace |-> FALSE,
      faults |-> {ErrConn}, procs |-> {1, 2},
      users |-> {"1"}, products |-> {"p1", "p2"}, offers |-> {Mouse},
      items |-> ItemIds, quantities |-> {1}],
     [name |-> "store", direct |-> TRUE, reads |-> FALSE, http |-> FALSE,
      life |-> FALSE, track |-> TRUE, serial |-> FALSE, trace |-> FALSE,
      faults |-> {ErrConn}, procs |-> {1},
      users |-> {"1"}, products |-> {"p1"}, offers |-> {Mouse},
      items |-> ItemIds, quantities |-> {-1, 0, 1}],
     [name |-> "cart", direct |-> FALSE, reads |-> TRUE, http |-> FALSE,
      life |-> FALSE, track |-> FALSE, serial |-> FALSE, trace |-> FALSE,
      faults |-> {ErrConn}, procs |-> {1},
      users |-> {"1"}, products |-> {"p1", "p2"}, offers |-> {Mouse, Keyboard},
      items |-> {EmptyItemID} \cup ItemIds, quantities |-> {1}],
     [name |-> "http", direct |-> FALSE, reads |-> TRUE, http |-> TRUE,
      life |-> FALSE, track |-> FALSE, serial |-> FALSE, trace |-> FALSE,
      faults |-> {ErrConn, ErrCartNotFound}, procs |-> {1},
      users |-> {"1", "2"}, products |-> {"p1"}, offers |-> {Mouse},
      items |-> ItemIds, quantities |-> {0, 1}],
     [name |-> "lifecycle", direct |-> FALSE, reads |-> FALSE, http |-> FALSE,
      life |-> TRUE, track |-> FALSE, serial |-> FALSE, trace |-> FALSE,
      faults |-> {}, procs |-> {}, users |-> {},
      products |-> {}, offers |-> {}, items |-> {}, quantities |-> {}],
     [name |-> "serial", direct |-> FALSE, reads |-> FALSE, http |-> FALSE,
      life |-> FALSE, track |-> FALSE, serial |-> TRUE, trace |-> FALSE,
      faults |-> {}, procs |-> {1, 2},
      users |-> {"1"}, products |-> {"p1", "p2"}, offers |-> {Mouse},
      items |-> {1}, quantities |-> {1}],
     [name |-> "trace", direct |-> FALSE, reads |-> FALSE, http |-> FALSE,
      life |-> FALSE, track |-> FALSE, serial |-> FALSE, trace |-> TRUE,
      faults |-> {}, procs |-> {},
      users |-> {}, products |-> {}, offers |-> {},
      items |-> {}, quantities |-> {}]}

\* scope   the workload (never changes)
\* rows    the committed rows of cart_items on the primary
\* nextId  the next value of the sequence behind cart_items.id
\* pc      where each request is: "idle", or inside AddItem before its
\*         upsert ("upsert") or before its commit ("commit")
\* req     the item of the AddItem call in flight
\* tx      the write pending in each open transaction
\* stmts   the statements the call in flight has sent so far
\* conc    whether the call in flight overlapped another AddItem on its pair
\* ledger  per (user, product), the quantity the successful calls so far
\*         amount to: what adds added, updates set and removals reset
\* last    the call that returned last
VARIABLES scope, rows, nextId, pc, req, tx, stmts, conc, ledger, last

\* gone    the identifier, user and product of every row deleted so far,
\*         kept in the scopes with track = TRUE (for the properties; the
\*         program has no such record)
VARIABLE gone

\* hist    the calls that have returned, each with its arguments and its
\*         result, in no order (kept in the scope serial, for the
\*         properties; the program has no such record)
VARIABLE hist

\* The process (cmd/main.go):
\* main            where func main is: "serving" (blocked on <-ctx.Done()),
\*                 "signalled", "draining" (the readiness drain delay),
\*                 "cleanup" (between two steps of the cleanup sequence),
\*                 "http_wait" (inside srv.Shutdown), "exited"
\* done            the cleanup steps completed, in order
\* isShuttingDown  the atomic.Bool read by /ready
\* listening       whether the HTTP server accepts requests
\* inflight        the API requests being served
\* poolOpen        whether the pgx pool is open
\* tracerUp        whether there is a tracer provider that is not shut down
\* httpErr         whether srv.Shutdown returned an error
\* sawClosed       whether a request in flight found the pool closed
\* ready           the status of the latest /ready response (0: none yet)
VARIABLES main, done, isShuttingDown, listening, inflight, poolOpen,
          tracerUp, httpErr, sawClosed, ready

\* mw      what LoggingMiddleware did with the latest request: the
\*         traceparent and X-Trace-ID headers it came with, the identifier
\*         generateTraceID has ready, the "trace_id" key set in the gin
\*         context and the X-Trace-ID header of the response
VARIABLE mw

mwVars == <<mw>>

\* No request is passing the middleware.
NoRequest == [seen |-> FALSE]

cartVars == <<rows, nextId, pc, req, tx, stmts, conc, ledger, last, gone, hist>>

lifeVars == <<main, done, isShuttingDown, listening, inflight, poolOpen,
              tracerUp, httpErr, sawClosed, ready>>

vars == <<scope, rows, nextId, pc, req, tx, stmts, conc, ledger, last, gone,
          hist, main, done, isShuttingDown, listening, inflight, poolOpen,
          tracerUp, httpErr, sawClosed, ready, mw>>

\* ------------------------------------------------------------------ table
\* One row of cart_items (created_at / updated_at carry no behaviour).
Row(id, u, p, n, pr, q) ==
    [id |-> id, user_id |-> u, product_id |-> p,
     product_name |-> n, product_price |-> pr, quantity |-> q]

\* CHECK (quantity >= 0): the constraint off by one.
QuantityCheck_NonNegative(q) == q >= 0

\* CHECK (quantity > 0)
QuantityCheck(q) == q > 0

\* A plain INSERT on a table without unique_user_product: nothing conflicts.
ConflictRows_None(rs, u, p) == {}

\* The arbiter of ON CONFLICT (user_id, product_id): the rows that conflict
\* with an insert of (u, p) under CONSTRAINT unique_user_product.
ConflictRows(rs, u, p) == {r \in rs : r.user_id = u /\ r.product_id = p}

\* DO UPDATE SET quantity = EXCLUDED.quantity: overwrite instead of merge.
MergedQuantity_Overwrite(existing, excluded) == excluded

\* DO UPDATE SET quantity = cart_items.quantity + EXCLUDED.quantity
MergedQuantity(existing, excluded) == existing + excluded

\* DO UPDATE SET also product_name and product_price from EXCLUDED.
DoUpdateSet_Reprice(old, n, pr, q) ==
    [old EXCEPT !.quantity = MergedQuantity(old.quantity, q),
                !.product_name = n, !.product_price = pr]

\* DO UPDATE SET quantity = cart_items.quantity + EXCLUDED.quantity,
\* updated_at = NOW(): what the conflicting row old becomes when (n, pr, q)
\* are the name, price and quantity proposed for insertion.
DoUpdateSet(old, n, pr, q) ==
    [old EXCEPT !.quantity = MergedQuantity(old.quantity, q)]

NoWrite == [kind |-> "none"]

\* MAX(id) + 1 style allocation: the lowest identifier no row holds.
SerialId_LowestFree(rs, n) ==
    CHOOSE k \in 1..n : /\ ~\E x \in rs : x.id = k
                         /\ \A j \in 1..(k - 1) : \E y \in rs : y.id = j

\* id SERIAL PRIMARY KEY: the default of id is nextval of the sequence,
\* whose next value is n, whatever rows rs the table holds.
SerialId(rs, n) == n

\* INSERT ... ON CONFLICT (user_id, product_id) DO UPDATE ... RETURNING id,
\* evaluated against the committed rows rs with id drawn from the sequence.
\* Yields the error of the statement, the write it leaves pending in the
\* transaction, and the id it returns.
Upsert(rs, id, u, p, n, pr, q) ==
    LET c == ConflictRows(rs, u, p) IN
    IF c = {}
    THEN IF ~QuantityCheck(q)
         THEN [err |-> ErrCheckViolation, write |-> NoWrite, id |-> 0]
         ELSE [err |-> Nil,
               write |-> [kind |-> "insert", old |-> {},
                          new |-> Row(id, u, p, n, pr, q)],
               id |-> id]
    ELSE LET old == CHOOSE r \in c : TRUE IN
         IF q > 0 /\ old.quantity > IntMax - q
         THEN [err |-> ErrOutOfRange, write |-> NoWrite, id |-> 0]
         ELSE IF ~QuantityCheck(MergedQuantity(old.quantity, q))
         THEN [err |-> ErrCheckViolation, write |-> NoWrite, id |-> 0]
         ELSE [err |-> Nil,
               write |-> [kind |-> "update", old |-> {old},
                          new |-> DoUpdateSet(old, n, pr, q)],
               id |-> old.id]

\* COMMIT of a transaction whose pending write is w.
ApplyWrite(rs, w) == IF w.kind = "none" THEN rs ELSE (rs \ w.old) \cup {w.new}

\* WHERE id = $1: the ownership predicate left out.
MatchItem_IdOnly(rs, u, i) == {r \in rs : r.id = i}

\* WHERE id = $2 AND user_id = $3  (UpdateItem)  /  WHERE id = $1 AND user_id = $2
MatchItem(rs, u, i) == {r \in rs : r.id = i /\ r.user_id = u}

\* The WHERE clause left out: every row of the table.
MatchUser_Everyone(rs, u) == rs

\* WHERE user_id = $1  (Clear)
MatchUser(rs, u) == {r \in rs : r.user_id = u}

\* The item id is a Go string, sent as text and read by the server as an
\* INTEGER (cart_items.id is SERIAL): the empty string is not one, and the
\* statement fails with SQLSTATE 22P02 before it looks at any row.
ValidItemID(i) == i # EmptyItemID

\* SET quantity = quantity + $1: the update as an increment.
UpdateItem_Increment(rs, u, i, q) ==
    LET m == {r \in rs : r.id = i /\ r.user_id = u} IN
    IF \E r \in m : q > 0 /\ r.quantity > IntMax - q
    THEN [err |-> ErrOutOfRange, rows |-> rs]
    ELSE IF \E r \in m : ~QuantityCheck(r.quantity + q)
    THEN [err |-> ErrCheckViolation, rows |-> rs]
    ELSE IF Cardinality(m) = 0
    THEN [err |-> ErrNotFound, rows |-> rs]
    ELSE [err |-> Nil,
          rows |-> (rs \ m) \cup
                     {[r EXCEPT !.quantity = r.quantity + q] : r \in m}]

\* The update as an upsert: a row with the id is put back when none matches.
UpdateItem_Resurrect(rs, u, i, q) ==
    LET m == {r \in rs : r.id = i /\ r.user_id = u} IN
    IF ~QuantityCheck(q)
    THEN [err |-> ErrCheckViolation, rows |-> rs]
    ELSE IF m = {} /\ \E r \in rs : r.id = i
    THEN [err |-> ErrNotFound, rows |-> rs]
    ELSE IF m = {}
    THEN [err |-> Nil,
          rows |-> rs \cup {Row(i, u, "p1", Mouse.product_name,
                                 Mouse.product_price, q)}]
    ELSE [err |-> Nil,
          rows |-> (rs \ m) \cup {[r EXCEPT !.quantity = q] : r \in m}]

\* UPDATE cart_items SET quantity = $1 WHERE id = $2 AND user_id = $3
\* followed by the RowsAffected test.
UpdateItem(rs, u, i, q) ==
    LET m == MatchItem(rs, u, i) IN
    IF m # {} /\ ~QuantityCheck(q)
    THEN [err |-> ErrCheckViolation, rows |-> rs]
    ELSE IF Cardinality(m) = 0
    THEN [err |-> ErrNotFound, rows |-> rs]
    ELSE [err |-> Nil,
          rows |-> (rs \ m) \cup {[r EXCEPT !.quantity = q] : r \in m}]

\* DELETE ... WHERE user_id = $2 once the item is found: the whole cart.
RemoveItem_WholeCart(rs, u, i) ==
    LET m == {r \in rs : r.id = i /\ r.user_id = u} IN
    IF Cardinality(m) = 0
    THEN [err |-> ErrNotFound, rows |-> rs]
    ELSE [err |-> Nil, rows |-> {r \in rs : r.user_id # u}]

\* DELETE FROM cart_items WHERE id = $1 AND user_id = $2, then RowsAffected.
RemoveItem(rs, u, i) ==
    LET m == MatchItem(rs, u, i) IN
    IF Cardinality(m) = 0
    THEN [err |-> ErrNotFound, rows |-> rs]
    ELSE [err |-> Nil, rows |-> rs \ m]

\* Clear with the RowsAffected test of RemoveItem: not-found on zero rows.
Clear_CheckRows(rs, u) ==
    IF Cardinality(MatchUser(rs, u)) = 0
    THEN [err |-> ErrNotFound, rows |-> rs]
    ELSE [err |-> Nil, rows |-> rs \ MatchUser(rs, u)]

\* DELETE FROM cart_items WHERE user_id = $1; the row count is not looked at.
Clear(rs, u) == [err |-> Nil, rows |-> rs \ MatchUser(rs, u)]

\* ------------------------------------------------------------------ reads
\* Shipping: 5.00, in cents.
Shipping == 500

RECURSIVE SumOver(_, _)
\* The sum of f[x] over the finite set S (subtotal += ..., SUM(...)).
SumOver(f, S) ==
    IF S = {} THEN 0
    ELSE LET x == CHOOSE y \in S : TRUE IN f[x] + SumOver(f, S \ {x})

\* item.Subtotal = item.ProductPrice: the quantity left out.
CartLine_UnitPrice(r) ==
    [id |-> r.id, product_id |-> r.product_id,
     product_name |-> r.product_name, product_price |-> r.product_price,
     quantity |-> r.quantity, subtotal |-> r.product_price]

\* rows.Scan(&item.ID, ..., &item.Quantity) of the row r, then
\* item.Subtotal = item.ProductPrice * float64(item.Quantity).
CartLine(r) ==
    [id |-> r.id, product_id |-> r.product_id,
     product_name |-> r.product_name, product_price |-> r.product_price,
     quantity |-> r.quantity, subtotal |-> r.product_price * r.quantity]

\* The cart built from the items the loop appended.
Aggregate(items) ==
    LET subtotal == SumOver([l \in items |-> l.subtotal], items) IN
    [items |-> items, subtotal |-> subtotal, shipping |-> Shipping,
     total |-> subtotal + Shipping, item_count |-> Cardinality(items)]

\* The rows the loop of FindByUserID may fail to append out of the rows m
\* the query selects: a row whose Scan fails is skipped (continue), and
\* when the connection or the context ends while rows are streamed,
\* rows.Next() returns false early and rows.Err() is never looked at.
UnreadRows(m) == {{}} \cup {{r} : r \in m}

\* FindByUserID on a node holding the rows rs, the rows in lost not read.
FindByUserID(rs, u, lost) ==
    Aggregate({CartLine(r) : r \in MatchUser(rs, u) \ lost})

\* SELECT COALESCE(SUM(quantity), 0) FROM cart_items WHERE user_id = $1
GetItemCount(rs, u) ==
    SumOver([r \in MatchUser(rs, u) |-> r.quantity], MatchUser(rs, u))

\* ----------------------------------------------------------------- router
\* AddItem opening with an existence check (SELECT ... WHERE user_id = $1
\* AND product_id = $2) ahead of its write, as before release 0.2.0.
AddItemQuery_ReadFirst == "SELECT"

\* The leading keyword of each statement the repository sends.
AddItemQuery == "INSERT"
UpdateItemQuery == "UPDATE"
RemoveItemQuery == "DELETE"
ClearQuery == "DELETE"
FindByUserIDQuery == "SELECT"
GetItemCountQuery == "SELECT"

\* PgCat: SELECT goes to a replica; INSERT/UPDATE/DELETE and every statement
\* of an explicit transaction go to the primary.
Route(keyword, inTx) ==
    IF inTx \/ keyword \in {"INSERT", "UPDATE", "DELETE"}
    THEN "primary" ELSE "replica"

Stmt(keyword, inTx) ==
    [keyword |-> keyword, inTx |-> inTx, node |-> Route(keyword, inTx)]

\* A statement that writes is rejected by a replica (SQLSTATE 25006).
Rejected(st) == st.node = "replica" /\ st.keyword # "SELECT"

\* ---------------------------------------------------------------- service
\* if req.Quantity < 0: zero let through.
InvalidAddQuantity_Negative(q) == q < 0

\* AddToCart: if req.Quantity <= 0 { return nil, ErrInvalidQuantity }
InvalidAddQuantity(q) == q <= 0

\* if quantity < 0: zero let through.
InvalidUpdateQuantity_Negative(q) == q < 0

\* UpdateItemQuantity: if quantity <= 0 { return ErrInvalidQuantity }
InvalidUpdateQuantity(q) == q <= 0

\* ClearCart reporting success whatever the store returned.
ClearResult_Swallow(err) == Nil

\* ClearCart: if err != nil { return err }; return nil
ClearResult(err) == err

\* The store's error returned as it is, the marker included.
TranslateNotFound_Leak(err) == err

\* if errors.Is(err, domain.ErrNotFound) { return ErrCartItemNotFound }
TranslateNotFound(err) == IF err = ErrNotFound THEN ErrCartItemNotFound ELSE err

\* ------------------------------------------------------------------- http
StatusOK == 200
StatusBadRequest == 400
StatusNotFound == 404
StatusInternalServerError == 500

\* ShouldBindJSON with no constraint on quantity.
BindAddToCart_Any(o, q) == TRUE

\* c.ShouldBindJSON(&req) for domain.AddToCartRequest: every field
\* required (a zero value fails), product_price min=0, quantity min=1.
BindAddToCart(o, q) ==
    o.product_name # "" /\ o.product_price > 0 /\ q >= 1

\* UpdateCartItem: Quantity int `binding:"required,min=1"`
BindUpdateCartItem(q) == q >= 1

\* The status a handler of web/v1 responds with when binding, or the
\* service operation op it called, ended with err: GetCart tells
\* ErrCartNotFound apart, every other handler answers any error of the
\* service with 500.
Respond(op, err) ==
    IF err = ErrBind THEN StatusBadRequest
    ELSE IF err = Nil THEN StatusOK
    ELSE IF op = "GetCart" /\ err = ErrCartNotFound THEN StatusNotFound
    ELSE StatusInternalServerError

\* ------------------------------------------------------------------ state
NoReq == [user |-> "", product_id |-> "", product_name |-> "",
          product_price |-> 0, quantity |-> 0]

\* No cart returned (the nil *domain.Cart).
NoCart == [items |-> {}, subtotal |-> 0, shipping |-> 0, total |-> 0,
           item_count |-> 0]

NoCall == [op |-> "none", user |-> "", item |-> 0,
           product_id |-> "", quantity |-> 0, storeCalls |-> 0,
           storeErr |-> Nil, result |-> Nil, sent |-> <<>>, conc |-> FALSE,
           again |-> "no", id |-> EmptyItemID, price |-> 0, count |-> 0,
           cart |-> NoCart, status |-> 0]

\* Whether a statement sent to the store may fail on the connection.
ConnFaults == IF scope.serial THEN {FALSE} ELSE BOOLEAN

\* No transaction around the upsert, no row lock: read, then write.
Locked_None(p, u, prod) == FALSE

\* The (user, product) keys on which another process's open transaction
\* holds a pending write: the row (or the index entry being inserted) is
\* locked until that transaction commits or rolls back.
Locked(p, u, prod) ==
    \E o \in Procs \ {p} :
        /\ tx[o].kind # "none"
        /\ tx[o].new.user_id = u
        /\ tx[o].new.product_id = prod

RowLocked(p, r) == Locked(p, r.user_id, r.product_id)

Init ==
    /\ scope \in Scopes
    /\ rows = {}
    /\ nextId = 1
    /\ pc = [p \in Procs |-> "idle"]
    /\ req = [p \in Procs |-> NoReq]
    /\ tx = [p \in Procs |-> NoWrite]
    /\ stmts = [p \in Procs |-> <<>>]
    /\ conc = [p \in Procs |-> FALSE]
    /\ ledger = [u \in Users, p \in Products |-> 0]
    /\ last = NoCall
    /\ gone = {}
    /\ hist = {}
    /\ main = "serving"
    /\ done = <<>>
    /\ isShuttingDown = FALSE
    /\ listening = TRUE
    /\ inflight = 0
    /\ poolOpen = TRUE
    /\ tracerUp \in (IF scope.life THEN BOOLEAN ELSE {TRUE})
    /\ httpErr = FALSE
    /\ sawClosed = FALSE
    /\ ready = 0
    /\ mw = NoRequest

\* How a call relates to the call that returned just before it: "same"
\* when that call was the same operation on the same user and item with the
\* same quantity, "other" when only the quantity differs; "removed" when
\* this is an update of the item that call removed, "updated" when this is
\* a remove of the item that call updated; "no" otherwise.  Counted only
\* when both calls were executed by the store.
Again(op, u, i, prod, q, storeErr) ==
    IF /\ last.op = op /\ last.user = u /\ last.item = i
       /\ last.product_id = prod /\ last.storeCalls = 1
       /\ last.storeErr \in {Nil, ErrNotFound}
       /\ storeErr \in {Nil, ErrNotFound}
    THEN IF last.quantity = q THEN "same" ELSE "other"
    ELSE IF /\ last.user = u /\ last.item = i /\ last.result = Nil
            /\ last.storeCalls = 1 /\ storeErr \in {Nil, ErrNotFound}
    THEN IF /\ last.op \in {"RemoveItem", "repo.RemoveItem"}
            /\ op \in {"UpdateItemQuantity", "repo.UpdateItem"}
         THEN "removed"
         ELSE IF /\ last.op \in {"UpdateItemQuantity", "repo.UpdateItem"}
                 /\ op \in {"RemoveItem", "repo.RemoveItem"}
         THEN "updated"
         ELSE "no"
    ELSE "no"

\* The record of a completed call.  id, count and cart are what the read
\* operations and AddToCart hand back, price is the unit price an add
\* carried; the callers that have one fill it in.  status is the HTTP
\* status the handler responds with when the call came in through it.
Done(p, op, u, i, prod, q, calls, storeErr, result, sent, cc) ==
    [op |-> op, user |-> u, item |-> i,
     product_id |-> prod, quantity |-> q, storeCalls |-> calls,
     storeErr |-> storeErr, result |-> result, sent |-> sent, conc |-> cc,
     again |-> Again(op, u, i, prod, q, storeErr),
     id |-> EmptyItemID, price |-> 0, count |-> 0, cart |-> NoCart,
     status |-> IF scope.http THEN Respond(op, result) ELSE 0]

\* The name under which a call is recorded: the service operation, or the
\* repository operation when the repository is called directly.
OpName(service, repo) == IF scope.direct THEN repo ELSE service

\* What the caller gets for the store's error err from UpdateItemQuantity
\* and RemoveItem (the repository itself returns err).
Returned(err) == IF scope.direct THEN err ELSE TranslateNotFound(err)

\* The upsert sent on the pool outside a transaction: applied at once.
AfterUpsert_Autocommit(rs, w) == ApplyWrite(rs, w)

\* What the committed table shows after the upsert has run inside the open
\* transaction and before COMMIT: the pending write w is not part of it.
AfterUpsert(rs, w) == rs

\* Other requests whose AddItem transaction is open on the same key.
Overlapping(p, u, prod) ==
    {o \in Procs \ {p} :
        pc[o] # "idle" /\ req[o].user = u /\ req[o].product_id = prod}

\* The ID of the caller's item after AddItem.  The repository declares
\* AddItem(ctx, userID string, item domain.CartItem): the item arrives by
\* value, Scan(&item.ID) fills the ID of the repository's own copy, and the
\* item the service built, and returns, keeps the ID it had.
CallerItemID(before, scanned) == before

\* AddItem returns: the deferred tx.Rollback discards whatever is pending
\* (after a successful Commit it finds the transaction closed and does
\* nothing), and the service hands the store's error to its caller.
AddItemReturns(p, err, sent) ==
    /\ pc' = [pc EXCEPT ![p] = "idle"]
    /\ tx' = [tx EXCEPT ![p] = NoWrite]
    /\ req' = [req EXCEPT ![p] = NoReq]
    /\ stmts' = [stmts EXCEPT ![p] = <<>>]
    /\ conc' = [conc EXCEPT ![p] = FALSE]
    /\ last' = [Done(p, OpName("AddToCart", "repo.AddItem"), req[p].user, 0,
                     req[p].product_id,
                     req[p].quantity, 1, err, err, sent, conc[p])
                   EXCEPT !.id = IF err = Nil
                                 THEN CallerItemID(EmptyItemID, tx[p].new.id)
                                 ELSE EmptyItemID,
                          !.price = req[p].product_price]

\* CartService.AddToCart up to the end of pool.Begin.
AddToCart(p) ==
    /\ pc[p] = "idle"
    /\ \E u \in scope.users, prod \in scope.products, o \in scope.offers,
          q \in scope.quantities :
        IF scope.http /\ ~BindAddToCart(o, q)
        THEN /\ last' = Done(p, "CartHandler.AddToCart", u, 0, prod, q, 0,
                             Nil, ErrBind, <<>>, FALSE)
             /\ UNCHANGED <<scope, rows, nextId, pc, req, tx, stmts, conc, ledger>>
        ELSE IF ~scope.direct /\ InvalidAddQuantity(q)
        THEN /\ last' = Done(p, "AddToCart", u, 0, prod, q, 0, Nil,
                             ErrInvalidQuantity, <<>>, FALSE)
             /\ UNCHANGED <<scope, rows, nextId, pc, req, tx, stmts, conc, ledger>>
        ELSE \E fault \in ConnFaults :
             IF fault
             THEN /\ last' = Done(p, OpName("AddToCart", "repo.AddItem"), u,
                                  0, prod, q, 1, ErrConn, ErrConn, <<>>,
                                  FALSE)
                  /\ UNCHANGED <<scope, rows, nextId, pc, req, tx, stmts,
                                 conc, ledger>>
             ELSE /\ nextId + Cardinality({x \in Procs : pc[x] = "upsert"})
                        <= MaxId
                  /\ pc' = [pc EXCEPT ![p] = "upsert"]
                  /\ req' = [req EXCEPT ![p] =
                                [user |-> u, product_id |-> prod,
                                 product_name |-> o.product_name,
                                 product_price |-> o.product_price,
                                 quantity |-> q]]
                  /\ stmts' = [stmts EXCEPT ![p] = <<Stmt("BEGIN", TRUE)>>]
                  /\ conc' = [x \in Procs |->
                                IF x = p THEN Overlapping(p, u, prod) # {}
                                ELSE conc[x] \/ x \in Overlapping(p, u, prod)]
                  /\ UNCHANGED <<scope, rows, nextId, tx, ledger, last>>

\* tx.QueryRow(ctx, query, ...).Scan(&item.ID)
AddItemUpsert(p) ==
    /\ pc[p] = "upsert"
    /\ LET st == Stmt(AddItemQuery, TRUE)
           sent == stmts[p] \o <<st>>
           back == <<Stmt("ROLLBACK", TRUE)>>
       IN
       \E fault \in ConnFaults :
         IF fault
         THEN /\ AddItemReturns(p, ErrConn, sent \o back)
              /\ UNCHANGED <<scope, rows, nextId, ledger>>
         ELSE IF Rejected(st)
         THEN /\ AddItemReturns(p, ErrReadOnly, sent \o back)
              /\ UNCHANGED <<scope, rows, nextId, ledger>>
         ELSE /\ ~Locked(p, req[p].user, req[p].product_id)
              /\ LET r == Upsert(rows, SerialId(rows, nextId), req[p].user,
                                 req[p].product_id,
                                 req[p].product_name, req[p].product_price,
                                 req[p].quantity)
                 IN
                 /\ nextId' = nextId + 1
                 /\ IF r.err # Nil
                    THEN /\ AddItemReturns(p, r.err, sent \o back)
                         /\ UNCHANGED <<scope, rows, ledger>>
                    ELSE /\ rows' = AfterUpsert(rows, r.write)
                         /\ tx' = [tx EXCEPT ![p] = r.write]
                         /\ pc' = [pc EXCEPT ![p] = "commit"]
                         /\ stmts' = [stmts EXCEPT ![p] = sent]
                         /\ UNCHANGED <<scope, req, conc, ledger, last>>

\* return tx.Commit(ctx)
AddItemCommit(p) ==
    /\ pc[p] = "commit"
    /\ LET sent == stmts[p] \o <<Stmt("COMMIT", TRUE)>> IN
       \E fault \in ConnFaults :
         IF fault
         THEN /\ AddItemReturns(p, ErrConn, sent \o <<Stmt("ROLLBACK", TRUE)>>)
              /\ UNCHANGED <<scope, rows, nextId, ledger>>
         ELSE /\ rows' = ApplyWrite(rows, tx[p])
              /\ ledger' = [ledger EXCEPT ![req[p].user, req[p].product_id] =
                                @ + req[p].quantity]
              /\ AddItemReturns(p, Nil, sent)
              /\ UNCHANGED <<scope, nextId>>

\* The ledger after a statement that set the rows m to quantity q
\* (q = 0: deleted them).
Settle(m, q) ==
    [k \in DOMAIN ledger |->
        IF \E r \in m : k = <<r.user_id, r.product_id>> THEN q ELSE ledger[k]]

\* CartService.UpdateItemQuantity
UpdateItemQuantity(p) ==
    /\ pc[p] = "idle"
    /\ \E u \in scope.users, i \in scope.items, q \in scope.quantities :
        IF scope.http /\ ~BindUpdateCartItem(q)
        THEN /\ last' = Done(p, "CartHandler.UpdateCartItem", u, i, "", q, 0,
                             Nil, ErrBind, <<>>, FALSE)
             /\ UNCHANGED <<scope, rows, nextId, pc, req, tx, stmts, conc, ledger>>
        ELSE IF ~scope.direct /\ InvalidUpdateQuantity(q)
        THEN /\ last' = Done(p, "UpdateItemQuantity", u, i, "", q, 0, Nil,
                             ErrInvalidQuantity, <<>>, FALSE)
             /\ UNCHANGED <<scope, rows, nextId, pc, req, tx, stmts, conc, ledger>>
        ELSE \E fault \in ConnFaults :
             LET st == Stmt(UpdateItemQuery, FALSE)
                 m == MatchItem(rows, u, i)
                 r == IF fault THEN [err |-> ErrConn, rows |-> rows]
                      ELSE IF Rejected(st)
                      THEN [err |-> ErrReadOnly, rows |-> rows]
                      ELSE IF ~ValidItemID(i)
                      THEN [err |-> ErrInvalidText, rows |-> rows]
                      ELSE UpdateItem(rows, u, i, q)
             IN
             /\ fault \/ \A x \in m : ~RowLocked(p, x)
             /\ rows' = r.rows
             /\ ledger' = IF r.err = Nil THEN Settle(m, q) ELSE ledger
             /\ last' = Done(p, OpName("UpdateItemQuantity",
                                       "repo.UpdateItem"),
                             u, i, "", q, 1, r.err, Returned(r.err), <<st>>,
                             FALSE)
             /\ UNCHANGED <<scope, nextId, pc, req, tx, stmts, conc>>

\* CartService.RemoveItem
ServiceRemoveItem(p) ==
    /\ pc[p] = "idle"
    /\ \E u \in scope.users, i \in scope.items, fault \in ConnFaults :
        LET st == Stmt(RemoveItemQuery, FALSE)
            m == MatchItem(rows, u, i)
            r == IF fault THEN [err |-> ErrConn, rows |-> rows]
                 ELSE IF Rejected(st)
                 THEN [err |-> ErrReadOnly, rows |-> rows]
                 ELSE IF ~ValidItemID(i)
                 THEN [err |-> ErrInvalidText, rows |-> rows]
                 ELSE RemoveItem(rows, u, i)
        IN
        /\ fault \/ \A x \in m : ~RowLocked(p, x)
        /\ rows' = r.rows
        /\ ledger' = IF r.err = Nil THEN Settle(m, 0) ELSE ledger
        /\ last' = Done(p, OpName("RemoveItem", "repo.RemoveItem"), u, i, "",
                        0, 1, r.err, Returned(r.err), <<st>>, FALSE)
        /\ UNCHANGED <<scope, nextId, pc, req, tx, stmts, conc>>

\* CartService.ClearCart
ClearCart(p) ==
    /\ pc[p] = "idle"
    /\ \E u \in scope.users, fault \in ConnFaults :
        LET st == Stmt(ClearQuery, FALSE)
            m == MatchUser(rows, u)
            r == IF fault THEN [err |-> ErrConn, rows |-> rows]
                 ELSE IF Rejected(st)
                 THEN [err |-> ErrReadOnly, rows |-> rows]
                 ELSE Clear(rows, u)
        IN
        /\ fault \/ \A x \in m : ~RowLocked(p, x)
        /\ rows' = r.rows
        /\ ledger' = IF r.err = Nil THEN Settle(m, 0) ELSE ledger
        /\ last' = Done(p, OpName("ClearCart", "repo.Clear"), u, 0, "", 0, 1,
                        r.err,
                        IF scope.direct THEN r.err ELSE ClearResult(r.err),
                        <<st>>, FALSE)
        /\ UNCHANGED <<scope, nextId, pc, req, tx, stmts, conc>>

\* CartService.GetCart.  The SELECT goes to a replica, taken here to hold
\* what the primary has committed.
GetCart(p) ==
    /\ pc[p] = "idle"
    /\ scope.reads
    /\ \E u \in scope.users, err \in {Nil} \cup scope.faults :
        LET st == Stmt(FindByUserIDQuery, FALSE) IN
        IF err # Nil
        THEN /\ last' = Done(p, "GetCart", u, 0, "", 0, 1, err, err,
                             <<st>>, FALSE)
             /\ UNCHANGED <<scope, rows, nextId, pc, req, tx, stmts, conc,
                            ledger>>
        ELSE \E lost \in UnreadRows(MatchUser(rows, u)) :
             /\ last' = [Done(p, "GetCart", u, 0, "", 0, 1, Nil, Nil, <<st>>,
                              FALSE)
                            EXCEPT !.cart = FindByUserID(rows, u, lost)]
             /\ UNCHANGED <<scope, rows, nextId, pc, req, tx, stmts, conc,
                            ledger>>

\* CartService.GetCartCount
GetCartCount(p) ==
    /\ pc[p] = "idle"
    /\ scope.reads
    /\ \E u \in scope.users, fault \in BOOLEAN :
        LET st == Stmt(GetItemCountQuery, FALSE) IN
        /\ last' = IF fault
                    THEN Done(p, "GetCartCount", u, 0, "", 0, 1, ErrConn,
                              ErrConn, <<st>>, FALSE)
                    ELSE [Done(p, "GetCartCount", u, 0, "", 0, 1, Nil, Nil,
                               <<st>>, FALSE)
                            EXCEPT !.count = GetItemCount(rows, u)]
        /\ UNCHANGED <<scope, rows, nextId, pc, req, tx, stmts, conc, ledger>>

\* ---------------------------------------------------------------- process
StatusServiceUnavailable == 503

\* The database pool closed ahead of the HTTP server.
ShutdownOrder_PoolFirst == <<"pool", "http", "tracer">>

\* Explicit cleanup sequence: HTTP Server -> Database -> Tracer.
ShutdownOrder == <<"http", "pool", "tracer">>

\* The cleanup step func main is about to take.
NextCleanup ==
    IF main = "cleanup" /\ Len(done) < Len(ShutdownOrder)
    THEN ShutdownOrder[Len(done) + 1] ELSE "none"

\* A readiness handler that never looks at the flag.
ReadyStatus_AlwaysOK(shutting) == StatusOK

\* if isShuttingDown.Load() { 503 "shutting_down" } else { 200 "ready" }
ReadyStatus(shutting) ==
    IF shutting THEN StatusServiceUnavailable ELSE StatusOK

\* r.GET("/ready", ...)
Probe ==
    /\ scope.life /\ listening
    /\ ready' = ReadyStatus(isShuttingDown)
    /\ UNCHANGED <<scope, cartVars, mwVars, main, done, isShuttingDown, listening,
                   inflight, poolOpen, tracerUp, httpErr, sawClosed>>

\* The server takes up a request of the API.
RequestArrives ==
    /\ scope.life /\ listening /\ inflight < MaxInflight
    /\ inflight' = inflight + 1
    /\ UNCHANGED <<scope, cartVars, mwVars, main, done, isShuttingDown, listening,
                   poolOpen, tracerUp, httpErr, sawClosed, ready>>

\* A request in flight calls the repository: pool.Begin / Query / Exec,
\* which fail on a closed pool.
RequestUsesPool ==
    /\ scope.life /\ inflight > 0
    /\ sawClosed' = (sawClosed \/ ~poolOpen)
    /\ UNCHANGED <<scope, cartVars, mwVars, main, done, isShuttingDown, listening,
                   inflight, poolOpen, tracerUp, httpErr, ready>>

\* A request in flight is answered.
RequestCompletes ==
    /\ scope.life /\ inflight > 0
    /\ inflight' = inflight - 1
    /\ UNCHANGED <<scope, cartVars, mwVars, main, done, isShuttingDown, listening,
                   poolOpen, tracerUp, httpErr, sawClosed, ready>>

\* <-ctx.Done(): SIGTERM or SIGINT has arrived.
Signal ==
    /\ scope.life /\ main = "serving"
    /\ main' = "signalled"
    /\ UNCHANGED <<scope, cartVars, mwVars, done, isShuttingDown, listening, inflight,
                   poolOpen, tracerUp, httpErr, sawClosed, ready>>

\* isShuttingDown.Store(true), then the drain delay starts.
FailReadiness ==
    /\ scope.life /\ main = "signalled"
    /\ isShuttingDown' = TRUE
    /\ main' = "draining"
    /\ UNCHANGED <<scope, cartVars, mwVars, done, listening, inflight, poolOpen,
                   tracerUp, httpErr, sawClosed, ready>>

\* time.Sleep(drainDelay) is over (or the delay is 0).
DrainElapsed ==
    /\ scope.life /\ main = "draining"
    /\ main' = "cleanup"
    /\ UNCHANGED <<scope, cartVars, mwVars, done, isShuttingDown, listening, inflight,
                   poolOpen, tracerUp, httpErr, sawClosed, ready>>

\* srv.Shutdown(shutdownCtx) is called: the listeners close.
ShutdownBegin ==
    /\ scope.life /\ NextCleanup = "http"
    /\ main' = "http_wait"
    /\ listening' = FALSE
    /\ UNCHANGED <<scope, cartVars, mwVars, done, isShuttingDown, inflight, poolOpen,
                   tracerUp, httpErr, sawClosed, ready>>

\* srv.Shutdown returns: nil once no request is in flight, or an error
\* (the listener's, or the context's when shutdownTimeout runs out with
\* requests still in flight); main logs it and goes on.
ShutdownReturns ==
    /\ scope.life /\ main = "http_wait"
    /\ \E err \in BOOLEAN :
          /\ err \/ inflight = 0
          /\ httpErr' = err
    /\ main' = "cleanup"
    /\ done' = Append(done, "http")
    /\ UNCHANGED <<scope, cartVars, mwVars, isShuttingDown, listening, inflight,
                   poolOpen, tracerUp, sawClosed, ready>>

\* pool.Close()
PoolClose ==
    /\ scope.life /\ NextCleanup = "pool"
    /\ poolOpen' = FALSE
    /\ done' = Append(done, "pool")
    /\ UNCHANGED <<scope, cartVars, mwVars, main, isShuttingDown, listening, inflight,
                   tracerUp, httpErr, sawClosed, ready>>

\* if tp != nil { tp.Shutdown(shutdownCtx) }
TracerShutdown ==
    /\ scope.life /\ NextCleanup = "tracer"
    /\ tracerUp' = FALSE
    /\ done' = Append(done, "tracer")
    /\ UNCHANGED <<scope, cartVars, mwVars, main, isShuttingDown, listening, inflight,
                   poolOpen, httpErr, sawClosed, ready>>

\* func main returns: the deferred pool.Close() runs (a second Close does
\* nothing) and the process ends, with whatever was still in flight.
MainReturns ==
    /\ scope.life /\ main = "cleanup" /\ Len(done) = Len(ShutdownOrder)
    /\ main' = "exited"
    /\ poolOpen' = FALSE
    /\ listening' = FALSE
    /\ inflight' = 0
    /\ UNCHANGED <<scope, cartVars, mwVars, done, isShuttingDown, tracerUp, httpErr,
                   sawClosed, ready>>

\* The rows a step deletes join gone.
Deleted ==
    gone' = IF ~scope.track THEN gone ELSE
            gone \cup {[id |-> r.id, user_id |-> r.user_id,
                         product_id |-> r.product_id] :
                           r \in {x \in rows : ~\E n \in rows' : n.id = x.id}}

\* ------------------------------------------------------------- middleware
\* A header value is a string, here a sequence of characters; a header
\* the request does not carry reads as the empty string (c.GetHeader).
Chars == {"-", "a", "b"}

RECURSIVE StringsOf(_)
StringsOf(n) ==
    IF n = 0 THEN {<<>>}
    ELSE LET shorter == StringsOf(n - 1) IN
         shorter \cup {Append(t, c) : t \in shorter, c \in Chars}

\* The values of traceparent, of X-Trace-ID and of generateTraceID (hex of
\* 16 random bytes: never empty, any of them at each call).
TraceParents == StringsOf(MaxLen)
TraceIDs == {<<>>, <<"x">>, <<"x", "-", "y">>}
Generated == {<<"0", "f">>, <<"c", "4">>}

\* The loop of splitTraceParent with i (counted from 1) the character
\* looked at, start where the current segment began and parts the segments
\* appended so far: a segment is appended only when it is not empty
\* (start < i), and so is the rest after the last hyphen.
RECURSIVE SplitLoop(_, _, _, _)
SplitLoop(s, i, start, parts) ==
    IF i > Len(s)
    THEN IF start <= Len(s)
         THEN Append(parts, SubSeq(s, start, Len(s)))
         ELSE parts
    ELSE IF s[i] = "-"
    THEN SplitLoop(s, i + 1, i + 1,
                   IF start < i
                   THEN Append(parts, SubSeq(s, start, i - 1))
                   ELSE parts)
    ELSE SplitLoop(s, i + 1, start, parts)

splitTraceParent(traceParent) == SplitLoop(traceParent, 1, 1, <<>>)

\* X-Trace-ID looked at before traceparent.
GetTraceID_HeaderFirst(traceParent, traceID, generated) ==
    LET parts == splitTraceParent(traceParent) IN
    IF traceID # <<>> THEN traceID
    ELSE IF traceParent # <<>> /\ Len(parts) >= 2 /\ parts[2] # <<>>
    THEN parts[2]
    ELSE generated

\* GetTraceID, with generated the value generateTraceID returns if called.
GetTraceID(traceParent, traceID, generated) ==
    LET parts == splitTraceParent(traceParent) IN
    IF traceParent # <<>> /\ Len(parts) >= 2 /\ parts[2] # <<>>
    THEN parts[2]
    ELSE IF traceID # <<>> THEN traceID
    ELSE generated

\* c.Header(TraceIDHeader, traceID): the identifier already resolved.
ResponseTraceID(traceID, header) == traceID

\* LoggingMiddleware up to c.Next(), for a request that comes in: resolve
\* the identifier once, c.Set it under "trace_id", set it as X-Trace-ID
\* of the response.
LoggingMiddleware ==
    /\ scope.trace
    /\ mw = NoRequest
    /\ \E traceParent \in TraceParents, header \in TraceIDs,
          generated \in Generated :
         LET traceID == GetTraceID(traceParent, header, generated) IN
         mw' = [seen |-> TRUE, traceparent |-> traceParent,
                xTraceID |-> header, generated |-> generated,
                trace_id |-> traceID,
                response |-> ResponseTraceID(traceID, header)]
    /\ UNCHANGED <<scope, cartVars, lifeVars>>

\* LoggingMiddleware after c.Next(): the request is logged and is over;
\* its context and response go with it.
RequestLogged ==
    /\ scope.trace
    /\ mw # NoRequest
    /\ mw' = NoRequest
    /\ UNCHANGED <<scope, cartVars, lifeVars>>

\* The call that returns in a step, as hist keeps it: n tells apart the
\* calls that agree in everything else.
Entry ==
    LET c == last'
        add == {p \in Procs : pc[p] # "idle" /\ pc'[p] = "idle"}
        e == [op |-> c.op, user |-> c.user, item |-> c.item,
              product_id |-> c.product_id,
              name |-> IF add = {} THEN ""
                       ELSE req[CHOOSE p \in add : TRUE].product_name,
              price |-> c.price, quantity |-> c.quantity,
              result |-> c.result]
    IN [call |-> e, n |-> Cardinality({h \in hist : h.call = e})]

\* A call that returns joins hist; no more than MaxOps calls return.
Track ==
    IF scope.serial /\ (pc' = pc \/
                         \E p \in Procs : pc[p] # "idle" /\ pc'[p] = "idle")
    THEN /\ Cardinality(hist) < MaxOps
         /\ hist' = hist \cup {Entry}
    ELSE hist' = hist

Next ==
    \/ (\E p \in scope.procs : AddToCart(p)) /\ Deleted /\ Track
                                                 /\ UNCHANGED <<lifeVars, mwVars>>
    \/ (\E p \in scope.procs : AddItemUpsert(p)) /\ Deleted /\ Track
                                                 /\ UNCHANGED <<lifeVars, mwVars>>
    \/ (\E p \in scope.procs : AddItemCommit(p)) /\ Deleted /\ Track
                                                 /\ UNCHANGED <<lifeVars, mwVars>>
    \/ (\E p \in scope.procs : UpdateItemQuantity(p)) /\ Deleted /\ Track
                                                 /\ UNCHANGED <<lifeVars, mwVars>>
    \/ (\E p \in scope.procs : ServiceRemoveItem(p)) /\ Deleted /\ Track
                                                 /\ UNCHANGED <<lifeVars, mwVars>>
    \/ (\E p \in scope.procs : ClearCart(p)) /\ Deleted /\ Track
                                                 /\ UNCHANGED <<lifeVars, mwVars>>
    \/ (\E p \in scope.procs : GetCart(p)) /\ Deleted /\ Track
                                                 /\ UNCHANGED <<lifeVars, mwVars>>
    \/ (\E p \in scope.procs : GetCartCount(p)) /\ Deleted /\ Track
                                                 /\ UNCHANGED <<lifeVars, mwVars>>
    \/ Probe
    \/ RequestArrives
    \/ RequestUsesPool
    \/ RequestCompletes
    \/ Signal
    \/ FailReadiness
    \/ DrainElapsed
    \/ ShutdownBegin
    \/ ShutdownReturns
    \/ PoolClose
    \/ TracerShutdown
    \/ MainReturns
    \/ LoggingMiddleware
    \/ RequestLogged

Spec == Init /\ [][Next]_vars

\* ----------------------------------------------------------------- claims
\* A step in which a call returns to its caller: the one-statement
\* operations and the rejected calls leave every pc as it is, and an
\* AddItem that returns brings its pc back to "idle".
Returns ==
    \/ pc' = pc
    \/ \E p \in Procs : pc[p] # "idle" /\ pc'[p] = "idle"

ServiceOps == {"AddToCart", "UpdateItemQuantity", "RemoveItem", "ClearCart"}
RepoOps == {"repo.AddItem", "repo.UpdateItem", "repo.RemoveItem", "repo.Clear"}

\* C1: concurrent AddItem calls on one (user, product) pair merge: the row
\* holds exactly the sum of the quantities of the adds that succeeded (on
\* top of what updates set and removals reset), under every interleaving,
\* and an add of a valid quantity fails only for a connection/context error
\* or because the sum leaves the INTEGER range, never because of the
\* concurrent call.
C1_MergeOnConflict ==
    /\ \A u \in Users, prod \in Products :
          /\ \A r \in rows :
                (r.user_id = u /\ r.product_id = prod)
                    => r.quantity = ledger[u, prod]
          /\ ledger[u, prod] # 0
                => \E r \in rows : r.user_id = u /\ r.product_id = prod
    /\ (last.op = "AddToCart" /\ last.quantity > 0)
          => last.result \in {Nil, ErrConn, ErrOutOfRange}

\* Two overlapping adds of 1 and 2 (the only two upserts that ran) both
\* succeeded and the row holds 3.
C1_Witness ==
    /\ scope.name = "merge"
    /\ nextId = 3
    /\ last.op = "AddToCart" /\ last.result = Nil /\ last.conc
    /\ \A p \in Procs : pc[p] = "idle"
    /\ \E r \in rows : r.quantity = 3

\* C2: a successful AddToCart(U, P, q) creates the row (U, P) with quantity
\* q when there is none, and otherwise adds q to the existing row, keeping
\* its id; afterwards there is exactly one row for (U, P).
C2_AddCreatesOrIncrements ==
    [][\A p \in Procs :
         (pc[p] = "commit" /\ pc'[p] = "idle" /\ last'.result = Nil
            /\ ~scope.direct)
         => LET u == req[p].user
                prod == req[p].product_id
                q == req[p].quantity
                before == {r \in rows : r.user_id = u /\ r.product_id = prod}
                after == {r \in rows' : r.user_id = u /\ r.product_id = prod}
            IN
            /\ Cardinality(after) = 1
            /\ before = {} => \A r \in after : r.quantity = q
            /\ \A o \in before : \A r \in after :
                  r.quantity = o.quantity + q /\ r.id = o.id
            /\ \A r \in rows : r \notin before => r \in rows'
            /\ \A r \in rows' : r \notin after => r \in rows]_vars

\* A repeat add of 1 on a row of 2, one call at a time.
C2_Witness ==
    /\ last.op = "AddToCart" /\ last.result = Nil /\ ~last.conc
    /\ last.quantity = 1
    /\ \E r \in rows :
          /\ r.user_id = last.user /\ r.product_id = last.product_id
          /\ r.quantity = 3 /\ r.id = 1
    /\ nextId = 3

\* C3: at most one row per (user_id, product_id), in every reachable state.
C3_UniqueUserProduct ==
    \A r1 \in rows : \A r2 \in rows :
        (r1.user_id = r2.user_id /\ r1.product_id = r2.product_id) => r1 = r2

\* Three upserts on one pair, two of them overlapping, left one row.
C3_Witness ==
    /\ scope.name = "merge"
    /\ nextId = 4
    /\ last.op = "AddToCart" /\ last.result = Nil /\ last.conc
    /\ Cardinality(rows) = 1

\* C4: every stored row has quantity > 0, whatever quantities the requests
\* carry (negative, zero, the largest INTEGER), through the service and
\* through the repository alone.
C4_QuantityPositive == \A r \in rows : r.quantity > 0

\* A row survived a rejected attempt to set or add a quantity <= 0.
C4_Witness ==
    /\ last.quantity <= 0
    /\ last.op \in {"AddToCart", "UpdateItemQuantity", "repo.AddItem",
                    "repo.UpdateItem"}
    /\ last.result \in {ErrInvalidQuantity, ErrCheckViolation}
    /\ \E r \in rows : r.user_id = last.user /\ r.quantity = IntMax

\* C5: an update or removal that reached the store and was executed there
\* (no connection error, an item id the server can read as an INTEGER)
\* returns not-found exactly when no row has both the item id and the
\* caller's user id; then nothing changes, and in no case does a row of
\* another user change or disappear.
C5_OwnershipIsolation ==
    [][(Returns
        /\ last'.op \in {"UpdateItemQuantity", "RemoveItem",
                         "repo.UpdateItem", "repo.RemoveItem"}
        /\ last'.storeCalls = 1
        /\ last'.storeErr \notin {ErrConn, ErrInvalidText})
       => LET mine == {r \in rows :
                          r.id = last'.item /\ r.user_id = last'.user}
          IN
          /\ (last'.result \in {ErrNotFound, ErrCartItemNotFound})
                <=> (mine = {})
          /\ last'.storeErr = ErrNotFound <=> (mine = {})
          /\ mine = {} => rows' = rows
          /\ \A r \in rows : r.user_id # last'.user => r \in rows']_vars

\* User A named an item that belongs to user B: not found, B's row is there.
C5_Witness ==
    /\ last.op \in {"UpdateItemQuantity", "RemoveItem"}
    /\ last.result = ErrCartItemNotFound
    /\ \E r \in rows : r.id = last.item /\ r.user_id # last.user

C7_WritesOnPrimary ==
    /\ (last.op \in ServiceOps \cup RepoOps)
          => /\ \A k \in 1..Len(last.sent) :
                   /\ last.sent[k].node = "primary"
                   /\ last.sent[k].keyword # "SELECT"
             /\ last.storeErr # ErrReadOnly
    /\ \A p \in Procs : \A k \in 1..Len(stmts[p]) :
          stmts[p][k].node = "primary" /\ stmts[p][k].keyword # "SELECT"

\* An update took effect through one UPDATE statement on the primary.
C7_Witness ==
    /\ last.op = "UpdateItemQuantity" /\ last.result = Nil
    /\ last.sent = <<[keyword |-> "UPDATE", inTx |-> FALSE,
                      node |-> "primary"]>>
    /\ \E r \in rows : r.id = last.item /\ r.quantity = last.quantity

\* C8: AddToCart with quantity <= 0 returns ErrInvalidQuantity, calls the
\* store zero times and changes nothing.
C8_AddValidationShortCircuit ==
    [][(Returns /\ last'.op = "AddToCart" /\ last'.quantity <= 0)
       => /\ last'.result = ErrInvalidQuantity
          /\ last'.storeCalls = 0
          /\ last'.sent = <<>>
          /\ rows' = rows /\ nextId' = nextId /\ tx' = tx /\ pc' = pc]_vars

\* AddToCart with quantity 0 was rejected while a row existed.
C8_Witness ==
    /\ last.op = "AddToCart" /\ last.quantity = 0
    /\ last.result = ErrInvalidQuantity /\ last.storeCalls = 0
    /\ rows # {}

\* C9: UpdateItemQuantity with quantity <= 0 returns ErrInvalidQuantity
\* without calling the store, whether the item exists, is another user's or
\* does not exist; no row is modified or deleted.
C9_UpdateValidationShortCircuit ==
    [][(Returns /\ last'.op = "UpdateItemQuantity" /\ last'.quantity <= 0)
       => /\ last'.result = ErrInvalidQuantity
          /\ last'.storeCalls = 0
          /\ last'.sent = <<>>
          /\ rows' = rows]_vars

\* Quantity 0 was refused for an item the caller owns.
C9_Witness ==
    /\ last.op = "UpdateItemQuantity" /\ last.quantity <= 0
    /\ last.result = ErrInvalidQuantity
    /\ \E r \in rows : r.id = last.item /\ r.user_id = last.user

\* C10: UpdateItemQuantity and RemoveItem return ErrCartItemNotFound when,
\* and only when, the store returned its not-found marker; the marker itself
\* never reaches the caller, and any other store error is returned as is.
C10_NotFoundTranslation ==
    (last.op \in {"UpdateItemQuantity", "RemoveItem"} /\ last.storeCalls = 1)
    => /\ last.storeErr = ErrNotFound => last.result = ErrCartItemNotFound
       /\ last.storeErr # ErrNotFound => last.result = last.storeErr
       /\ last.result # ErrNotFound
       /\ last.result = ErrCartItemNotFound => last.storeErr = ErrNotFound

\* RemoveItem of an absent item: the marker was translated.
C10_Witness ==
    /\ last.op = "RemoveItem"
    /\ last.storeErr = ErrNotFound /\ last.result = ErrCartItemNotFound

\* C11: GetCartCount(user) equals the item_count of GetCart(user) on the
\* same store state: both count the distinct line items of the user.
C11_CountEqualsItemCount ==
    (last.op = "GetCartCount" /\ last.result = Nil)
    => last.count = FindByUserID(rows, last.user, {}).item_count

\* C12: Clear is idempotent.  A clear the store executes succeeds whether
\* or not the user has rows and leaves the user with none; on a user with
\* no rows it changes nothing; and a clear that follows a clear of the same
\* user returns what the first returned and leaves the state the first left.
C12_ClearIdempotent ==
    [][(Returns /\ last'.op \in {"ClearCart", "repo.Clear"}
        /\ last'.storeErr # ErrConn)
       => /\ last'.storeErr = Nil /\ last'.result = Nil
          /\ MatchUser(rows', last'.user) = {}
          /\ MatchUser(rows, last'.user) = {} => rows' = rows
          /\ \A r \in rows : r.user_id # last'.user => r \in rows'
          /\ (last.op = last'.op /\ last.user = last'.user
                /\ last.storeErr # ErrConn)
                => rows' = rows /\ last'.result = last.result]_vars

\* A second ClearCart of the same user in a row returned nil.
C12_Witness ==
    /\ last.op = "ClearCart" /\ last.again = "same"
    /\ last.result = Nil
    /\ MatchUser(rows, last.user) = {}

\* C13: from an empty cart, AddToCart(U, P, 1) followed by RemoveItem(U, the
\* item id that AddToCart returned) succeeds, and GetCart(U) then yields no
\* items, subtotal 0 and total = the shipping constant.
C13_AddThenRemoveEmpties ==
    [][(Returns
        /\ last.op = "AddToCart" /\ last.result = Nil /\ last.quantity = 1
        /\ Cardinality(MatchUser(rows, last.user)) = 1
        /\ \A r \in MatchUser(rows, last.user) : r.quantity = 1
        /\ last'.op = "RemoveItem" /\ last'.user = last.user
        /\ last'.item = last.id /\ last'.storeErr # ErrConn)
       => /\ last'.result = Nil
          /\ FindByUserID(rows', last.user, {}).items = {}
          /\ FindByUserID(rows', last.user, {}).subtotal = 0
          /\ FindByUserID(rows', last.user, {}).total = Shipping]_vars

\* C14: a successful AddToCart returns a line item that carries the id of
\* the stored row for (user, product): the new id on a first add, the id
\* of the existing row on a repeat add.
C14_ReturnsStoredId ==
    (last.op = "AddToCart" /\ last.result = Nil)
    => \E r \in rows :
          /\ r.user_id = last.user /\ r.product_id = last.product_id
          /\ r.id = last.id

\* A step in which process p's AddItem commits and returns nil, right after
\* the same call (same user, product and quantity) had returned nil: the
\* second execution of a successful add.
SecondAdd(p) ==
    /\ pc[p] = "commit" /\ pc'[p] = "idle" /\ last'.result = Nil
    /\ last.op = last'.op /\ last.result = Nil
    /\ last.user = req[p].user /\ last.product_id = req[p].product_id
    /\ last.quantity = req[p].quantity

\* C15 (as claimed): AddItem's upsert is idempotent: executing the same
\* successful addItem(user, product, quantity) a second time leaves the
\* store in the state one execution left.
C15_AddIdempotent ==
    [][\A p \in Procs : SecondAdd(p) => rows' = rows]_vars

\* C15 (amended): the second execution of the same successful add adds the
\* quantity once more to the same row: the row keeps its id, name and
\* price, gains exactly the quantity, no row is created and no other row
\* changes; for a quantity above 0 the state differs from the one a single
\* execution left.
C15_SecondAddCountsAgain ==
    [][\A p \in Procs :
         SecondAdd(p)
         => \E o \in rows :
               /\ o.user_id = req[p].user /\ o.product_id = req[p].product_id
               /\ rows' = (rows \ {o}) \cup
                     {[o EXCEPT !.quantity = o.quantity + req[p].quantity]}
               /\ req[p].quantity > 0 => rows' # rows]_vars

\* AddToCart of 1 returned nil twice in a row and the row holds 2.
C15_Witness ==
    /\ last.op = "AddToCart" /\ last.result = Nil /\ last.again = "same"
    /\ last.quantity = 1 /\ nextId = 3
    /\ \E r \in rows :
          /\ r.user_id = last.user /\ r.product_id = last.product_id
          /\ r.quantity = 2

C17_LastUpdateWins ==
    [][(Returns
        /\ last.op = "UpdateItemQuantity" /\ last.result = Nil
        /\ last'.op = "UpdateItemQuantity" /\ last'.user = last.user
        /\ last'.item = last.item
        /\ last'.storeCalls = 1 /\ last'.storeErr # ErrConn)
       => /\ last'.result = Nil
          /\ \E r \in rows :
                /\ r.id = last.item /\ r.user_id = last.user
                /\ r.quantity = last.quantity
                /\ rows' = (rows \ {r}) \cup
                      {[r EXCEPT !.quantity = last'.quantity]}]_vars

\* With two requests in flight, an update to 1 followed an update to 2 of
\* the same item; both returned nil and the row holds 1.
C17_Witness ==
    /\ scope.name = "merge"
    /\ last.op = "UpdateItemQuantity" /\ last.again = "other"
    /\ last.result = Nil /\ last.quantity = 1
    /\ \E r \in rows : r.id = last.item /\ r.quantity = 1

\* C18: the cart GetCart returns (prices in cents) has each item's subtotal
\* = unit price x quantity, subtotal = the sum of unit price x quantity
\* over its items, shipping = the constant 5.00, total = subtotal +
\* shipping and item count = the number of its line items (not the sum of
\* quantities); every item is a stored line of the user, and a user with no
\* rows gets no items, subtotal 0 and no error.
C18_CartArithmetic ==
    /\ (last.op = "GetCart" /\ last.result = Nil)
       => LET c == last.cart IN
          /\ \A l \in c.items : l.subtotal = l.product_price * l.quantity
          /\ c.subtotal =
                SumOver([l \in c.items |-> l.product_price * l.quantity],
                        c.items)
          /\ c.shipping = Shipping
          /\ c.total = c.subtotal + c.shipping
          /\ c.item_count = Cardinality(c.items)
          /\ \A l \in c.items : \E r \in MatchUser(rows, last.user) :
                /\ r.id = l.id /\ r.product_id = l.product_id
                /\ r.product_name = l.product_name
                /\ r.product_price = l.product_price
                /\ r.quantity = l.quantity
          /\ MatchUser(rows, last.user) = {}
                => c.items = {} /\ c.subtotal = 0 /\ c.total = Shipping
    /\ (last.op = "GetCart" /\ last.storeErr \notin scope.faults)
       => last.result = Nil

\* The cart of two mice at 29.99 and one keyboard at 79.99: subtotal
\* 139.97, total 144.97, two items.
C18_Witness ==
    /\ last.op = "GetCart" /\ last.result = Nil
    /\ last.cart.item_count = 2
    /\ last.cart.subtotal = 13997
    /\ last.cart.total = 14497
    /\ \E l \in last.cart.items : l.quantity = 2 /\ l.subtotal = 5998

\* C19: the unit price and the display name of a stored line item are those
\* of the add that created the row and never change afterwards: no step (a
\* repeat AddToCart with another price or name, any UpdateItemQuantity)
\* changes them on a row that stays.
C19_PriceAndNameFixed ==
    [][/\ \A r \in rows : \A n \in rows' :
             n.id = r.id
             => /\ n.product_name = r.product_name
                /\ n.product_price = r.product_price
                /\ n.user_id = r.user_id /\ n.product_id = r.product_id
       /\ \A p \in Procs :
             (pc[p] = "commit" /\ pc'[p] = "idle" /\ last'.result = Nil
                /\ ConflictRows(rows, req[p].user, req[p].product_id) = {})
             => \E n \in rows' :
                   /\ n.user_id = req[p].user
                   /\ n.product_id = req[p].product_id
                   /\ n.product_name = req[p].product_name
                   /\ n.product_price = req[p].product_price]_vars

\* A repeat AddToCart priced as the keyboard succeeded on a row created as
\* the mouse: the row holds both quantities, and the mouse's name and price.
C19_Witness ==
    /\ last.op = "AddToCart" /\ last.result = Nil
    /\ last.price = Keyboard.product_price
    /\ \E r \in rows :
          /\ r.user_id = last.user /\ r.product_id = last.product_id
          /\ r.product_name = Mouse.product_name
          /\ r.product_price = Mouse.product_price
          /\ r.quantity = 2

\* C20: FindByUserID returns every line item the queried node holds for
\* the user, or fails with an error: a cart returned without error lists
\* all of the user's rows, with the subtotal and item count of all of them.
C20_AllRowsOrError ==
    (last.op = "GetCart" /\ last.result = Nil)
    => /\ {l.id : l \in last.cart.items}
             = {r.id : r \in MatchUser(rows, last.user)}
       /\ last.cart.item_count = Cardinality(MatchUser(rows, last.user))
       /\ last.cart.subtotal = FindByUserID(rows, last.user, {}).subtotal

\* C21: at the HTTP boundary a CartItemNotFound from UpdateItemQuantity or
\* RemoveItem is answered with 404 and an InvalidQuantity from the service
\* with 400; only other failures are answered with 500.
C21_ClientErrorsMapped ==
    scope.http
    => /\ (last.op \in {"UpdateItemQuantity", "RemoveItem"}
             /\ last.result = ErrCartItemNotFound)
          => last.status = StatusNotFound
       /\ last.result = ErrInvalidQuantity => last.status = StatusBadRequest
       /\ last.status = StatusInternalServerError
          => last.result \notin {Nil, ErrCartItemNotFound, ErrInvalidQuantity}

\* C22: ClearCart(U) validates nothing: every call reaches the store's
\* Clear exactly once, as one DELETE for the user U; it returns nil when the
\* store succeeds, and then U has no rows, and it returns the store's
\* failure unchanged, and then no row has changed.
C22_ClearCartDelegates ==
    [][(Returns /\ last'.op = "ClearCart")
       => /\ last'.storeCalls = 1
          /\ Len(last'.sent) = 1 /\ last'.sent[1].keyword = "DELETE"
          /\ last'.result = last'.storeErr
          /\ last'.storeErr = Nil
                => rows' = {r \in rows : r.user_id # last'.user}
          /\ last'.storeErr # Nil => rows' = rows]_vars

\* ClearCart returned the store's connection error; the rows are there.
C22_Witness ==
    /\ last.op = "ClearCart" /\ last.storeCalls = 1
    /\ last.storeErr = ErrConn /\ last.result = ErrConn
    /\ \E r \in rows : r.user_id = last.user

\* C23: the status the handlers respond with is a function of the outcome.
\* GetCart: 200 on success, 404 when the service's error is ErrCartNotFound,
\* 500 for any other error.  AddToCart: 400 for a body that does not bind,
\* the repository not called; otherwise AddItem is called exactly once, with
\* the product and the quantity of the request, and the response is 500
\* when it fails and 200 when it succeeds.
C23_HandlerStatus ==
    scope.http
    => /\ last.op = "GetCart"
          => last.status = (IF last.result = Nil THEN StatusOK
                            ELSE IF last.result = ErrCartNotFound
                            THEN StatusNotFound
                            ELSE StatusInternalServerError)
       /\ last.op = "CartHandler.AddToCart"
          => /\ last.status = StatusBadRequest
             /\ last.storeCalls = 0 /\ last.sent = <<>>
       /\ last.op = "AddToCart"
          => /\ last.storeCalls = 1
             /\ last.result # Nil => last.status = StatusInternalServerError
             /\ last.result = Nil
                   => /\ last.status = StatusOK
                      /\ \E r \in rows :
                            /\ r.user_id = last.user
                            /\ r.product_id = last.product_id
                            /\ r.quantity >= last.quantity
                            /\ r.quantity = ledger[last.user, last.product_id]

\* POST /cart with quantity 1 was answered 200 after one AddItem; the row
\* holds the quantity.
C23_Witness ==
    /\ scope.http
    /\ last.op = "AddToCart" /\ last.status = StatusOK
    /\ last.storeCalls = 1 /\ last.quantity = 1
    /\ \E r \in rows :
          /\ r.user_id = last.user /\ r.product_id = last.product_id
          /\ r.quantity = 1

\* C24: /ready answers 200 as long as no shutdown signal has arrived and 503
\* from the moment the shutdown has started (the readiness flag is stored,
\* the first statement after the signal); the flag is set before the drain
\* delay and before the HTTP server is shut down, it is never cleared, and
\* /ready never goes back to 200.
C24_ReadinessFailsFromShutdown ==
    [][/\ ready' # ready =>
            ready' = (IF isShuttingDown THEN 503 ELSE 200)
       /\ main = "serving" => ~isShuttingDown
       /\ main' \in {"draining", "cleanup", "http_wait", "exited"} =>
            isShuttingDown'
       /\ (~listening' \/ done' # <<>>) => isShuttingDown'
       /\ isShuttingDown => isShuttingDown'
       /\ ready = 503 => ready' = 503]_vars

\* /ready was probed during the drain delay and answered 503.
C24_Witness == ready = 503 /\ main = "draining" /\ listening /\ done = <<>>

\* The cleanup steps are taken in the order HTTP server, pool, tracer: the
\* pool is closed only when srv.Shutdown has returned, and the tracer is
\* shut down only when the pool is closed.
CleanupInOrder ==
    /\ poolOpen /\ ~poolOpen' =>
         /\ main # "http_wait" /\ ~listening
         /\ done # <<>> /\ Head(done) = "http"
    /\ Len(done') > Len(done) /\ done'[Len(done')] = "tracer" =>
         /\ ~poolOpen
         /\ done = <<"http", "pool">>
    /\ tracerUp /\ ~tracerUp' => ~poolOpen

\* C25: the shutdown is strictly sequential, HTTP server, then pool, then
\* tracer, on every path, also when the HTTP shutdown returns an error or
\* times out, and no request in flight ever finds the pool closed.
C25_SequentialNoClosedPool ==
    [][CleanupInOrder /\ ~sawClosed']_vars

\* C25 (amended): the order HTTP server, pool, tracer holds on every path;
\* no request in flight finds the pool closed when srv.Shutdown returned
\* nil, and one can only when it returned an error (its timeout ran out
\* with requests still in flight).
C25_SequentialShutdown ==
    [][CleanupInOrder /\ (sawClosed' => httpErr')]_vars

\* The whole sequence ran although srv.Shutdown returned an error.
C25_Witness ==
    /\ done = <<"http", "pool", "tracer">>
    /\ httpErr /\ ~poolOpen /\ ~tracerUp /\ main = "exited"

\* The rows of user u in the table rs, columns and all.
RowsOf(rs, u) == {r \in rs : r.user_id = u}

\* C26: an operation invoked for user U (add, update, remove, clear, get,
\* count), succeeding or failing, leaves the rows of every other user as
\* they are: the same ids, quantities, names and prices.  No step other
\* than the one in which U's call returns touches them either.
C26_OtherUsersUntouched ==
    [][\A u \in Users :
          (~Returns \/ last'.user # u) => RowsOf(rows', u) = RowsOf(rows, u)]_vars

\* User 1 has just removed a row of theirs (the store deleted it) while
\* user 2 has a row.
C26_Witness ==
    /\ last.op = "RemoveItem" /\ last.user = "1" /\ last.result = Nil
    /\ \E r \in rows : r.user_id = "2"

\* C27: a successful UpdateItemQuantity(U, i, q) sets the quantity of
\* exactly the row with id i of U to q (it replaces, it does not add) and
\* changes no other row; a successful RemoveItem(U, i) deletes exactly that
\* row and changes no other row.
C27_ExactlyThatRow ==
    [][(pc' = pc /\ last'.storeCalls = 1 /\ last'.result = Nil) =>
          LET m == {r \in rows : r.id = last'.item /\ r.user_id = last'.user}
          IN
          /\ last'.op \in {"UpdateItemQuantity", "repo.UpdateItem"} =>
                /\ Cardinality(m) = 1
                /\ rows' = (rows \ m) \cup
                             {[r EXCEPT !.quantity = last'.quantity] : r \in m}
          /\ last'.op \in {"RemoveItem", "repo.RemoveItem"} =>
                /\ Cardinality(m) = 1
                /\ rows' = rows \ m]_vars

\* An update has just replaced the quantity an earlier update had set on
\* the same row.
C27_Witness ==
    /\ last.op = "UpdateItemQuantity" /\ last.result = Nil
    /\ last.again = "other"
    /\ \E r \in rows : /\ r.id = last.item /\ r.user_id = last.user
                       /\ r.quantity = last.quantity

UpdateOps == {"UpdateItemQuantity", "repo.UpdateItem"}
RemoveOps == {"RemoveItem", "repo.RemoveItem"}

\* C28: UpdateItemQuantity(U, i, q) and RemoveItem(U, i) on one existing
\* item, in either order of their statements, leave no row i: a remove
\* that succeeds leaves no row i, and so does a remove right after the
\* update took effect, which succeeds unless the connection fails; an
\* update whose statement runs after the remove took effect finds no row
\* and returns CartItemNotFound (the store's not-found when the
\* repository is called directly); and no update adds a row.
C28_UpdateNeverResurrects ==
    [][(pc' = pc /\ last' # last /\ last'.storeCalls = 1) =>
          LET i == last'.item
              u == last'.user
              ran == last'.storeErr \in {Nil, ErrNotFound}
          IN
          /\ last'.op \in UpdateOps =>
                {r.id : r \in rows'} \subseteq {r.id : r \in rows}
          /\ (last'.op \in RemoveOps /\ last'.result = Nil) =>
                ~\E r \in rows' : r.id = i
          /\ (/\ last'.op \in UpdateOps /\ ran
              /\ last.op \in RemoveOps /\ last.result = Nil
              /\ last.storeCalls = 1 /\ last.item = i /\ last.user = u) =>
                /\ last'.storeErr = ErrNotFound
                /\ last'.result = Returned(ErrNotFound)
                /\ rows' = rows
                /\ ~\E r \in rows' : r.id = i
          /\ (/\ last'.op \in RemoveOps /\ ran
              /\ last.op \in UpdateOps /\ last.result = Nil
              /\ last.storeCalls = 1 /\ last.item = i /\ last.user = u) =>
                /\ last'.result = Nil
                /\ ~\E r \in rows' : r.id = i]_vars

\* The update ran after the remove of the same item and was told that the
\* item is not there.
C28_Witness ==
    /\ last.op = "UpdateItemQuantity" /\ last.again = "removed"
    /\ last.result = ErrCartItemNotFound
    /\ ~\E r \in rows : r.id = last.item

\* The remove ran after the update of the same item and deleted the row.
C28_WitnessRemoveLast ==
    /\ last.op = "RemoveItem" /\ last.again = "updated"
    /\ last.result = Nil
    /\ ~\E r \in rows : r.id = last.item

AddOps == {"AddToCart", "repo.AddItem"}

SeqStep(st, e) ==
    IF e.op = "AddToCart"
    THEN IF InvalidAddQuantity(e.quantity)
         THEN [rows |-> st.rows, nextId |-> st.nextId,
               result |-> ErrInvalidQuantity]
         ELSE LET r == Upsert(st.rows, SerialId(st.rows, st.nextId), e.user,
                              e.product_id, e.name, e.price, e.quantity)
              IN [rows |-> ApplyWrite(st.rows, r.write),
                  nextId |-> st.nextId + 1, result |-> r.err]
    ELSE IF e.op = "UpdateItemQuantity"
    THEN IF InvalidUpdateQuantity(e.quantity)
         THEN [rows |-> st.rows, nextId |-> st.nextId,
               result |-> ErrInvalidQuantity]
         ELSE LET r == UpdateItem(st.rows, e.user, e.item, e.quantity)
              IN [rows |-> r.rows, nextId |-> st.nextId,
                  result |-> TranslateNotFound(r.err)]
    ELSE IF e.op = "RemoveItem"
    THEN LET r == RemoveItem(st.rows, e.user, e.item)
         IN [rows |-> r.rows, nextId |-> st.nextId,
             result |-> TranslateNotFound(r.err)]
    ELSE LET r == Clear(st.rows, e.user)
         IN [rows |-> r.rows, nextId |-> st.nextId,
             result |-> ClearResult(r.err)]

\* Whether the calls of h, executed one after the other in some order from
\* st, return what they returned and end with the table rs.
RECURSIVE SeqReach(_, _, _)
SeqReach(st, h, rs) ==
    IF h = {} THEN st.rows = rs
    ELSE \E x \in h :
           LET nx == SeqStep(st, x.call) IN
           /\ nx.result = x.call.result
           /\ SeqReach(nx, h \ {x}, rs)

Quiescent == \A p \in Procs : pc[p] = "idle" /\ tx[p] = NoWrite

Segments(s) ==
    {seg \in (1..Len(s)) \X (1..Len(s)) :
        /\ seg[1] <= seg[2]
        /\ \A k \in seg[1]..seg[2] : s[k] # "-"
        /\ seg[1] = 1 \/ s[seg[1] - 1] = "-"
        /\ seg[2] = Len(s) \/ s[seg[2] + 1] = "-"}

\* The second of them, counted from the left.
SecondSegment(s) ==
    LET seg == CHOOSE x \in Segments(s) :
                   Cardinality({y \in Segments(s) : y[1] < x[1]}) = 1
    IN SubSeq(s, seg[1], seg[2])

\* C31: the trace identifier is, in this order of precedence, the second
\* non-empty hyphen-separated segment of traceparent when there are at
\* least two, else X-Trace-ID when it is not empty, else a newly
\* generated identifier; LoggingMiddleware puts that one identifier both
\* in the request context and in the X-Trace-ID header of the response.
C31_TraceIDPrecedence ==
    mw.seen =>
        LET expected ==
                IF Cardinality(Segments(mw.traceparent)) >= 2
                THEN SecondSegment(mw.traceparent)
                ELSE IF mw.xTraceID # <<>> THEN mw.xTraceID
                ELSE mw.generated
        IN /\ mw.trace_id = expected
           /\ mw.response = expected
           /\ expected # <<>>

\* A request whose traceparent has an empty segment between two others
\* and which also carries X-Trace-ID: the second non-empty segment wins.
C31_Witness ==
    /\ mw.seen
    /\ mw.traceparent = <<"a", "-", "-", "b">>
    /\ mw.xTraceID = <<"x">>
    /\ mw.trace_id = <<"b">> /\ mw.response = <<"b">>

\* A request with one segment only and no X-Trace-ID: a new identifier.
C31_WitnessGenerated ==
    /\ mw.seen
    /\ mw.traceparent = <<"a", "-">> /\ mw.xTraceID = <<>>
    /\ mw.trace_id = mw.generated /\ mw.response = mw.generated

====
